---- MODULE Spec2Model ----
(***************************************************************************)
(* Model of the debate orchestration of Multi-LLM-Debate:                  *)
(*   multi_llm_debate/debate/debate.py          (debate, check_convergence)*)
(*   multi_llm_debate/debate/round_zero.py      (run_debate_round_zero)    *)
(*   multi_llm_debate/debate/round_n.py         (run_debate_round_n)       *)
(*   multi_llm_debate/debate/agents_ensemble.py (AgentsEnsemble)           *)
(*   multi_llm_debate/debate/agent.py           (Agent.respond)            *)
(*   multi_llm_debate/llm/parsers.py            (extract_bool_answer)      *)
(*   multi_llm_debate/llm/prompt_builder.py     (PromptBuilder)            *)
(*   multi_llm_debate/llm/llm.py                (generate_with_ollama)     *)
(*                                                                         *)
(* Spec is a debate: every ensemble, every interleaving of its agents'     *)
(* calls and every outcome of each call.  SpecFn applies check_convergence,*)
(* extract_bool_answer and Agent.respond on their own to every argument of *)
(* a bounded set.                                                          *)
(*                                                                         *)
(* Python strings are tuples of one-character strings.  Exceptions are the *)
(* names of their classes.  time.sleep(job_delay) only delays the calling  *)
(* thread and is not a step of its own: every interleaving it allows is    *)
(* already allowed.  The "model" field of a response is carried by no      *)
(* decision of the code and is left out of the response records.           *)
(***************************************************************************)
EXTENDS Integers, Sequences, FiniteSets, TLC

\* ------------------------------------------------------------------ bounds
\* Ensembles of up to MaxAgents agents debate for up to MaxRounds rounds; a
\* debate is allowed at most MaxCalls agent calls in all (agents x rounds), so
\* the largest ensembles debate for fewer rounds than the smallest.
MaxAgents == 3
MaxRounds == 3
MaxWorkers == 2
MaxCalls == 6
\* The texts given to the parsers are made of up to MaxPieces pieces.
MaxPieces == 3
\* A configuration list has up to MaxGroups groups of up to MaxQuantity agents.
MaxGroups == 2
MaxQuantity == 2
\* diversity_pruning gets up to MaxResponses responses, quality_pruning up to
\* MaxQualityResponses.
MaxResponses == 4
MaxQualityResponses == 3
\* The picks of quality_pruning are followed among up to MaxCandidates
\* responses.
MaxCandidates == 4
\* run_debate is called up to MaxBatchRuns times on a dataframe of up to
\* MaxEntries entries, with at most MaxDebates entries gone through in all
\* (entries x calls).
MaxEntries == 2
MaxBatchRuns == 2
MaxDebates == 6

\* --------------------------------------------------------------- variables
VARIABLES
    agents,         \* AgentsEnsemble.agents: the agent_id of each agent, in order
    concurrent,     \* AgentsEnsemble.concurrent
    max_workers,    \* AgentsEnsemble.max_workers
    max_rounds,     \* debate's argument
    pc,             \* where debate() is: "loop", "dispatch", "append",
                    \*   "returned", "raised" ("idle": no debate)
    i,              \* debate's loop variable
    all_responses,  \* debate's accumulated list of rounds
    prompt,         \* the prompt last built by the PromptBuilder
    round_num,      \* the round number run_debate_round_* stores its round under
    sink,           \* output_dir: round number -> content of debate_round_<n>.json
    ret,            \* what debate() returned (None until it returns)
    err,            \* the exception debate() raised ("none" until it raises)
    epc,            \* where get_responses is: "idle", "submit", "collect",
                    \*   "shutdown", "seq", "returned", "raised"
    fut,            \* per agent: "new", "queued", "running", "done"
    result,         \* per agent: what its respond call returned or raised
    collected,      \* the futures as_completed has yielded so far
    responses,      \* get_responses' local list / return value
    exc,            \* the exception get_responses is propagating ("none" if none)
    exc_src,        \* the agents whose failure that exception carries
    executing,      \* the respond calls executing now, as <<round, agent index>>
    provider,       \* history: per agent, what the provider library did in
                    \*   its respond call of the current get_responses call
    called,         \* history: the agents whose respond was called by the
                    \*   current get_responses call, in the order of the calls
    checked,        \* history: round numbers given to check_convergence
    dispatched,     \* history: round number of every get_responses call, in order
    fn,             \* function applications: the function applied ("none" in
                    \*   a debate)
    fin,            \* its argument
    fout,           \* its result (<<>> until it is applied)
    dataframe,      \* run_debate's argument: the id of each entry, in order
    overwrite,      \* run_debate's argument
    bpc,            \* where run_debate is: "idle" (not called yet), "loop",
                    \*   "returned", "raised" ("none": no batch)
    entry_ix,       \* how many entries the loop of run_debate has gone through
    processed_count,\* run_debate's counter
    failed_entries, \* run_debate's list of {"id", "error"}
    summary,        \* what run_debate returned (<<>> until it returns)
    base_dir,       \* per entry id: whether base_dir/<id> exists, and per
                    \*   round number the run_debate call that wrote
                    \*   debate_round_<n>.json last (<<>>: no such file)
    run_no,         \* history: how many times run_debate was called
    last_debate,    \* history: per entry id, the last debate made for it
    skips           \* history: the ids the current run_debate call skipped

cfgVars == <<agents, concurrent, max_workers, max_rounds>>
debateVars == <<pc, i, all_responses, prompt, round_num, sink, ret, err>>
ensVars == <<epc, fut, result, collected, responses, exc, exc_src, executing,
             provider, called>>
histVars == <<checked, dispatched>>
fnVars == <<fn, fin, fout>>
batchVars == <<dataframe, overwrite, bpc, entry_ix, processed_count,
               failed_entries, summary, base_dir, run_no, last_debate, skips>>
vars == <<agents, concurrent, max_workers, max_rounds, pc, i, all_responses,
          prompt, round_num, sink, ret, err, epc, fut, result, collected, responses, exc,
          exc_src, executing, provider, called, checked, dispatched, fn, fin, fout,
          dataframe, overwrite, bpc, entry_ix, processed_count, failed_entries,
          summary, base_dir, run_no, last_debate, skips>>

\* No batch is going on.
NoBatch ==
    /\ dataframe = <<>>
    /\ overwrite = FALSE
    /\ bpc = "none"
    /\ entry_ix = 0
    /\ processed_count = 0
    /\ failed_entries = <<>>
    /\ summary = <<>>
    /\ base_dir = <<>>
    /\ run_no = 0
    /\ last_debate = <<>>
    /\ skips = {}

NoResult == [kind |-> "none"]

NumAgents == Len(agents)
AgentIx == 1..NumAgents

SetMax(S) == CHOOSE x \in S : \A y \in S : y <= x
SetMin(S) == CHOOSE x \in S : \A y \in S : x <= y

\* ------------------------------------------------------------ parsers.py
\* str.lower() on the letters the model's texts use.
Lower(c) ==
    CASE c = "Y" -> "y"
      [] c = "N" -> "n"
      [] c = "T" -> "t"
      [] c = "F" -> "f"
      [] c = "E" -> "e"
      [] c = "S" -> "s"
      [] c = "O" -> "o"
      [] c = "R" -> "r"
      [] c = "U" -> "u"
      [] c = "A" -> "a"
      [] c = "L" -> "l"
      [] OTHER -> c

LowerStr(s) == [p \in 1..Len(s) |-> Lower(s[p])]

\* Mutant of RFind: str.find, the lowest index.
RFind_first(s, pat) ==
    LET starts == {p \in 0..(Len(s) - Len(pat)) :
                      \A j \in 1..Len(pat) : s[p + j] = pat[j]}
    IN IF starts = {}
       THEN -1
       ELSE CHOOSE x \in starts : \A y \in starts : x <= y

\* str.rfind(pat): the highest 0-based index where pat starts in s, or -1.
RFind(s, pat) ==
    LET starts == {p \in 0..(Len(s) - Len(pat)) :
                      \A j \in 1..Len(pat) : s[p + j] = pat[j]}
    IN IF starts = {} THEN -1 ELSE SetMax(starts)

Max2(a, b) == IF a >= b THEN a ELSE b

\* extract_bool_answer(response): "true" or "false"; "ValueError" when no token
\* is found; "AttributeError" when the payload is not a string (a mapping has
\* no lower()).
ExtractBoolAnswer(response) ==
    IF response.kind # "str" THEN "AttributeError"
    ELSE LET low == LowerStr(response.text)
             last_true == Max2(RFind(low, <<"t", "r", "u", "e">>),
                               RFind(low, <<"y", "e", "s">>))
             last_false == Max2(RFind(low, <<"f", "a", "l", "s", "e">>),
                                RFind(low, <<"n", "o">>))
         IN IF last_true = -1 /\ last_false = -1 THEN "ValueError"
            ELSE IF last_true > last_false THEN "true" ELSE "false"

IsException(x) == x \in {"ValueError", "AttributeError"}

\* ------------------------------------------------------------- debate.py
\* Mutant of CheckConvergence: len(answers) == 1 instead of len(set(answers)).
CheckConvergence_lenOfList(payloads) ==
    LET answers == [p \in 1..Len(payloads) |-> ExtractBoolAnswer(payloads[p])]
        bad == {p \in 1..Len(payloads) : IsException(answers[p])}
    IN IF bad # {}
       THEN [raised |-> answers[SetMin(bad)], value |-> FALSE]
       ELSE [raised |-> "none", value |-> Len(payloads) = 1]

\* Mutant of CheckConvergence: answers[0] == answers[-1] instead of
\* len(set(answers)) == 1.
CheckConvergence_firstLast(payloads) ==
    LET answers == [p \in 1..Len(payloads) |-> ExtractBoolAnswer(payloads[p])]
        bad == {p \in 1..Len(payloads) : IsException(answers[p])}
    IN IF bad # {}
       THEN [raised |-> answers[SetMin(bad)], value |-> FALSE]
       ELSE [raised |-> "none",
             value |-> Len(payloads) > 0 /\ answers[1] = answers[Len(payloads)]]

\* check_convergence(responses): the list comprehension raises at the first
\* payload whose extraction raises; otherwise len(set(answers)) == 1.
CheckConvergence(payloads) ==
    LET answers == [p \in 1..Len(payloads) |-> ExtractBoolAnswer(payloads[p])]
        bad == {p \in 1..Len(payloads) : IsException(answers[p])}
    IN IF bad # {}
       THEN [raised |-> answers[SetMin(bad)], value |-> FALSE]
       ELSE [raised |-> "none",
             value |-> Cardinality({answers[p] : p \in 1..Len(payloads)}) = 1]

\* Mutant of LastRound: all_responses[0] instead of all_responses[-1].
LastRound_first(rounds) == rounds[1]

\* all_responses[-1]
LastRound(rounds) == rounds[Len(rounds)]

\* [response["response"] for response in all_responses[-1]]
ExtractedResponses(round) == [p \in 1..Len(round) |-> round[p].response]

\* ------------------------------------------------------ prompt_builder.py
BuildRoundZero == [round |-> "zero", responses |-> <<>>]

\* Mutant of BuildRoundN: the payloads are listed last to first.
BuildRoundN_reversed(payloads) ==
    [round |-> "n",
     responses |-> [p \in 1..Len(payloads) |->
                       payloads[Len(payloads) + 1 - p]]]

BuildRoundN(payloads) == [round |-> "n", responses |-> payloads]

\* ------------------------------------------------------------ the provider
\* What the provider can return: text that is not JSON, or a mapping, here
\* {"a": true}.  A mapping is held as the JSON text of its content.
TextYes == <<"Y", "e", "s">>
TextNo == <<"n", "o">>
TextHm == <<"h", "m">>
AnswerTrue == <<"\"", "a", "\"", ":", "t", "r", "u", "e">>

Text(t) == [kind |-> "text", text |-> t, exception |-> "none"]
Dict(t) == [kind |-> "dict", text |-> t, exception |-> "none"]
Raise(e) == [kind |-> "raise", text |-> <<>>, exception |-> e]

\* What the provider library can do inside generate_with_ollama: return (see
\* above), or raise: the built-in ConnectionError, requests' Timeout, or
\* requests' ConnectionError.
ProviderOutcomes ==
    {Text(TextYes), Text(TextNo), Text(TextHm), Dict(AnswerTrue),
     Raise("ConnectionError"), Raise("requests.Timeout"),
     Raise("requests.ConnectionError")}

\* ----------------------------------------------------------------- llm.py
\* generate_with_ollama's except clauses.  llm.py imports ConnectionError from
\* requests.exceptions, so its "except ConnectionError" is about requests'
\* class and re-raises that class; every other exception is logged and
\* re-raised as it is.
GenerateWithOllama(out) ==
    IF out.kind # "raise" THEN out
    ELSE IF out.exception = "requests.Timeout" THEN Raise("TimeoutError")
    ELSE IF out.exception = "requests.ConnectionError"
         THEN Raise("requests.ConnectionError")
    ELSE out

\* call_model: the provider's generate function (here ollama's).
CallModel(out) == GenerateWithOllama(out)

\* ---------------------------------------------------------------- agent.py
\* json.loads on texts without white space, commas, escapes, signs and the
\* digit 0: a value is true, false, null, a run of digits, a string, an
\* array of no or one value, or an object of no or one entry.  A parsed value
\* is held as its kind and the text of its content.
Sub(s, a, b) == [j \in 1..(b - a + 1) |-> s[a + j - 1]]

StartsWith(s, p, lit) ==
    /\ p + Len(lit) - 1 <= Len(s)
    /\ \A j \in 1..Len(lit) : s[p + j - 1] = lit[j]

JsonDigits == {"1", "2", "3", "4", "5", "6", "7", "8", "9"}

JsonFail == [ok |-> FALSE, end |-> 0, kind |-> "none", text |-> <<>>]
JsonOk(end, kind, text) == [ok |-> TRUE, end |-> end, kind |-> kind, text |-> text]

\* A string literal starting at p: up to the next quote.
JsonString(s, p) ==
    IF p > Len(s) \/ s[p] # "\"" THEN JsonFail
    ELSE LET closes == {q \in (p + 1)..Len(s) : s[q] = "\""}
         IN IF closes = {} THEN JsonFail
            ELSE JsonOk(SetMin(closes) + 1, "str", Sub(s, p + 1, SetMin(closes) - 1))

RECURSIVE JsonValue(_, _)
JsonValue(s, p) ==
    IF p > Len(s) THEN JsonFail
    ELSE IF StartsWith(s, p, <<"t", "r", "u", "e">>)
    THEN JsonOk(p + 4, "bool", <<"t", "r", "u", "e">>)
    ELSE IF StartsWith(s, p, <<"f", "a", "l", "s", "e">>)
    THEN JsonOk(p + 5, "bool", <<"f", "a", "l", "s", "e">>)
    ELSE IF StartsWith(s, p, <<"n", "u", "l", "l">>)
    THEN JsonOk(p + 4, "null", <<>>)
    ELSE IF s[p] \in JsonDigits
    THEN LET stops == {q \in p..Len(s) : s[q] \notin JsonDigits}
             end == IF stops = {} THEN Len(s) + 1 ELSE SetMin(stops)
         IN JsonOk(end, "int", Sub(s, p, end - 1))
    ELSE IF s[p] = "\"" THEN JsonString(s, p)
    ELSE IF s[p] = "["
    THEN IF StartsWith(s, p, <<"[", "]">>) THEN JsonOk(p + 2, "list", <<>>)
         ELSE LET v == JsonValue(s, p + 1)
              IN IF v.ok /\ v.end <= Len(s) /\ s[v.end] = "]"
                 THEN JsonOk(v.end + 1, "list", Sub(s, p + 1, v.end - 1))
                 ELSE JsonFail
    ELSE IF s[p] = "{"
    THEN IF StartsWith(s, p, <<"{", "}">>) THEN JsonOk(p + 2, "map", <<>>)
         ELSE LET key == JsonString(s, p + 1)
              IN IF ~key.ok \/ key.end > Len(s) \/ s[key.end] # ":"
                 THEN JsonFail
                 ELSE LET v == JsonValue(s, key.end + 1)
                      IN IF v.ok /\ v.end <= Len(s) /\ s[v.end] = "}"
                         THEN JsonOk(v.end + 1, "map", Sub(s, p + 1, v.end - 1))
                         ELSE JsonFail
    ELSE JsonFail

\* json.loads(text): the whole text must be one value (else JSONDecodeError).
JsonLoads(s) ==
    LET v == JsonValue(s, 1)
    IN IF v.ok /\ v.end = Len(s) + 1 THEN v ELSE JsonFail

\* Mutant of ParseResponse: output that is not JSON text or a mapping is
\* wrapped as {"raw_content": str(raw_response)}.
ParseResponse_rawContent(raw_response) ==
    IF raw_response.kind = "dict"
    THEN [kind |-> "map", text |-> raw_response.text]
    ELSE IF raw_response.kind = "text" /\ JsonLoads(raw_response.text).ok
    THEN [kind |-> JsonLoads(raw_response.text).kind,
          text |-> JsonLoads(raw_response.text).text]
    ELSE [kind |-> "map",
          text |-> <<"\"", "r", "a", "w", "_", "c", "o", "n", "t", "e", "n",
                     "t", "\"", ":", "\"">> \o raw_response.text \o <<"\"">>]

\* Mutant of ParseResponse: output that does not parse is dropped (an empty
\* string is kept in its place).
ParseResponse_emptyOnFailure(raw_response) ==
    IF raw_response.kind = "dict"
    THEN [kind |-> "map", text |-> raw_response.text]
    ELSE IF raw_response.kind = "text" /\ JsonLoads(raw_response.text).ok
    THEN [kind |-> JsonLoads(raw_response.text).kind,
          text |-> JsonLoads(raw_response.text).text]
    ELSE [kind |-> "str", text |-> <<>>]

\* The parsing of Agent.respond: a mapping is used as it is; other output goes
\* through json.loads, and when that raises JSONDecodeError (text that is not
\* JSON) or TypeError (a value that is neither text nor a mapping, here a
\* number) the response is str(raw_response).
ParseResponse(raw_response) ==
    IF raw_response.kind = "dict"
    THEN [kind |-> "map", text |-> raw_response.text]
    ELSE IF raw_response.kind = "text" /\ JsonLoads(raw_response.text).ok
    THEN [kind |-> JsonLoads(raw_response.text).kind,
          text |-> JsonLoads(raw_response.text).text]
    ELSE [kind |-> "str", text |-> raw_response.text]

\* Mutant of AgentRespond: "except Exception" instead of
\* "except ConnectionError".
AgentRespond_wrapAll(agent_id, out) ==
    LET raw_response == CallModel(out)
    IN IF raw_response.kind = "raise"
       THEN [kind |-> "raise", exception |-> "LLMConnectionError"]
       ELSE [kind |-> "ok",
             value |-> [agent_id |-> agent_id,
                        response |-> ParseResponse(raw_response)]]

\* Agent.respond: the built-in ConnectionError becomes LLMConnectionError
\* (agent.py names the built-in class), every other exception propagates as
\* it is; what call_model returns is parsed into the response field.
AgentRespond(agent_id, out) ==
    LET raw_response == CallModel(out)
    IN IF raw_response.kind = "raise"
       THEN [kind |-> "raise",
             exception |-> IF raw_response.exception = "ConnectionError"
                           THEN "LLMConnectionError"
                           ELSE raw_response.exception]
       ELSE [kind |-> "ok",
             value |-> [agent_id |-> agent_id,
                        response |-> ParseResponse(raw_response)]]

\* ------------------------------------------------------------------- Init
\* An ensemble built from a config list: ids 0..n-1 in order
\* (_initialize_from_config_list).  output_dir holds no round file yet.
Init ==
    /\ \E n \in 1..MaxAgents : agents = [k \in 1..n |-> k - 1]
    /\ concurrent \in BOOLEAN
    /\ max_workers \in 1..MaxWorkers
    /\ max_rounds \in 0..MaxRounds
    /\ Len(agents) * max_rounds <= MaxCalls
    /\ pc = "loop"
    /\ i = 0
    /\ all_responses = <<>>
    /\ prompt = [round |-> "none", responses |-> <<>>]
    /\ round_num = 0
    /\ sink = [r \in 0..(MaxRounds - 1) |-> <<>>]
    /\ ret = <<>>
    /\ err = "none"
    /\ epc = "idle"
    /\ fut = [k \in 1..Len(agents) |-> "new"]
    /\ result = [k \in 1..Len(agents) |-> NoResult]
    /\ collected = {}
    /\ responses = <<>>
    /\ exc = "none"
    /\ exc_src = {}
    /\ executing = {}
    /\ provider = [k \in 1..Len(agents) |-> NoResult]
    /\ called = <<>>
    /\ checked = {}
    /\ dispatched = <<>>
    /\ fn = "none"
    /\ fin = <<>>
    /\ fout = <<>>
    /\ NoBatch

\* --------------------------------------------------- agents_ensemble.py
\* Entry of get_responses: a fresh pool and fresh locals.
GetResponsesBegin ==
    /\ epc' = IF concurrent THEN "submit" ELSE "seq"
    /\ fut' = [k \in AgentIx |-> "new"]
    /\ result' = [k \in AgentIx |-> NoResult]
    /\ collected' = {}
    /\ responses' = <<>>
    /\ exc' = "none"
    /\ exc_src' = {}
    /\ provider' = [k \in AgentIx |-> NoResult]
    /\ called' = <<>>
    /\ UNCHANGED executing

Running == {k \in AgentIx : fut[k] = "running"}
Queued == {k \in AgentIx : fut[k] = "queued"}

\* executor.submit(agent.respond, ...) for the next agent of the list; after
\* the last one the main thread enters the as_completed loop.
Submit ==
    /\ pc = "dispatch" /\ epc = "submit"
    /\ LET k == SetMin({j \in AgentIx : fut[j] = "new"})
       IN /\ fut' = [fut EXCEPT ![k] = "queued"]
          /\ epc' = IF k = NumAgents THEN "collect" ELSE "submit"
    /\ UNCHANGED <<result, collected, responses, exc, exc_src, executing, provider,
                   called>>
    /\ UNCHANGED <<cfgVars, fnVars, batchVars, debateVars, histVars>>

\* Mutant of WorkerFree: the pool starts a thread for every work item.
WorkerFree_unbounded == TRUE

\* ThreadPoolExecutor: at most max_workers threads; each takes the oldest
\* work item of the queue.
WorkerFree == Cardinality(Running) < max_workers

WorkerStart(k) ==
    /\ epc \in {"submit", "collect", "shutdown"}
    /\ Queued # {} /\ k = SetMin(Queued)
    /\ WorkerFree
    /\ fut' = [fut EXCEPT ![k] = "running"]
    /\ executing' = executing \cup {<<i, k>>}
    /\ called' = Append(called, k)
    /\ UNCHANGED <<epc, result, collected, responses, exc, exc_src, provider>>
    /\ UNCHANGED <<cfgVars, fnVars, batchVars, debateVars, histVars>>

\* agent.respond returns or raises inside its worker thread; the future holds
\* the outcome.
WorkerFinish(k, out) ==
    /\ epc \in {"submit", "collect", "shutdown"}
    /\ fut[k] = "running"
    /\ fut' = [fut EXCEPT ![k] = "done"]
    /\ result' = [result EXCEPT ![k] = AgentRespond(agents[k], out)]
    /\ executing' = executing \ {<<i, k>>}
    /\ provider' = [provider EXCEPT ![k] = out]
    /\ UNCHANGED <<epc, collected, responses, exc, exc_src, called>>
    /\ UNCHANGED <<cfgVars, fnVars, batchVars, debateVars, histVars>>

\* Mutant of Yieldable: a finished future may be yielded again.
Yieldable_again == {k \in AgentIx : fut[k] = "done"}

\* The futures as_completed may yield next: finished and not yet yielded.
Yieldable == {k \in AgentIx : fut[k] = "done" /\ k \notin collected}

\* Mutant of Collect: a failed agent is skipped (try/except around
\* future.result()), so the round goes on without its response.
Collect_skipFailed(k) ==
    /\ pc = "dispatch" /\ epc = "collect"
    /\ k \in Yieldable
    /\ collected' = collected \cup {k}
    /\ responses' = IF result[k].kind = "raise" THEN responses
                    ELSE Append(responses, result[k].value)
    /\ epc' = IF collected' = AgentIx THEN "shutdown" ELSE "collect"
    /\ UNCHANGED <<fut, result, executing, exc, exc_src, provider, called>>
    /\ UNCHANGED <<cfgVars, fnVars, batchVars, debateVars, histVars>>

\* One iteration of "for future in as_completed(futures)": future.result()
\* re-raises the agent's exception, which leaves the loop and the with block;
\* otherwise the response is appended, and the loop ends after the last one.
Collect(k) ==
    /\ pc = "dispatch" /\ epc = "collect"
    /\ k \in Yieldable
    /\ collected' = collected \cup {k}
    /\ IF result[k].kind = "raise"
       THEN /\ exc' = result[k].exception
            /\ exc_src' = {k}
            /\ epc' = "shutdown"
            /\ UNCHANGED responses
       ELSE /\ responses' = Append(responses, result[k].value)
            /\ epc' = IF collected' = AgentIx THEN "shutdown" ELSE "collect"
            /\ UNCHANGED <<exc, exc_src>>
    /\ UNCHANGED <<fut, result, executing, provider, called>>
    /\ UNCHANGED <<cfgVars, fnVars, batchVars, debateVars, histVars>>

\* Mutant of PoolDrained: shutdown(wait=False).
PoolDrained_noWait == TRUE

\* ThreadPoolExecutor.__exit__ is shutdown(wait=True): it joins the workers,
\* which first run every work item still queued.
PoolDrained == \A k \in AgentIx : fut[k] = "done"

\* Leaving the with block: return responses, or let the exception go on.
Shutdown ==
    /\ pc = "dispatch" /\ epc = "shutdown"
    /\ PoolDrained
    /\ epc' = IF exc = "none" THEN "returned" ELSE "raised"
    /\ UNCHANGED <<fut, result, collected, responses, exc, exc_src, executing,
                   provider, called>>
    /\ UNCHANGED <<cfgVars, fnVars, batchVars, debateVars, histVars>>

\* Mutant of SeqCall: the loop takes the agents in any order (iterating a
\* set of agents instead of the list).
SeqCall_anyOrder(k) ==
    /\ pc = "dispatch" /\ epc = "seq"
    /\ Running = {}
    /\ fut[k] = "new"
    /\ fut' = [fut EXCEPT ![k] = "running"]
    /\ executing' = executing \cup {<<i, k>>}
    /\ called' = Append(called, k)
    /\ UNCHANGED <<epc, result, collected, responses, exc, exc_src, provider>>
    /\ UNCHANGED <<cfgVars, fnVars, batchVars, debateVars, histVars>>

\* Sequential mode: the loop calls the agents one after the other.
SeqCall(k) ==
    /\ pc = "dispatch" /\ epc = "seq"
    /\ Running = {}
    /\ k = Len(responses) + 1
    /\ fut[k] = "new"
    /\ fut' = [fut EXCEPT ![k] = "running"]
    /\ executing' = executing \cup {<<i, k>>}
    /\ called' = Append(called, k)
    /\ UNCHANGED <<epc, result, collected, responses, exc, exc_src, provider>>
    /\ UNCHANGED <<cfgVars, fnVars, batchVars, debateVars, histVars>>

\* The call returns (the response is appended; after the last agent
\* get_responses returns) or raises (get_responses raises at once).
SeqFinish(k, out) ==
    /\ pc = "dispatch" /\ epc = "seq"
    /\ fut[k] = "running"
    /\ LET r == AgentRespond(agents[k], out)
       IN /\ fut' = [fut EXCEPT ![k] = "done"]
          /\ result' = [result EXCEPT ![k] = r]
          /\ executing' = executing \ {<<i, k>>}
          /\ IF r.kind = "raise"
             THEN /\ exc' = r.exception
                  /\ exc_src' = {k}
                  /\ epc' = "raised"
                  /\ UNCHANGED responses
             ELSE /\ responses' = Append(responses, r.value)
                  /\ epc' = IF k = NumAgents THEN "returned" ELSE "seq"
                  /\ UNCHANGED <<exc, exc_src>>
    /\ provider' = [provider EXCEPT ![k] = out]
    /\ UNCHANGED <<collected, called>>
    /\ UNCHANGED <<cfgVars, fnVars, batchVars, debateVars, histVars>>

\* -------------------------------------------------------------- debate.py
\* Mutants of InRange: range(max_rounds - 1), range(max_rounds + 1) and
\* range(max_rounds + 2).
InRange_short(idx) == idx < max_rounds - 1
InRange_over(idx) == idx < max_rounds + 1
InRange_twoOver(idx) == idx < max_rounds + 2

\* "for i in range(max_rounds)": whether the loop has an iteration idx.
InRange(idx) == idx < max_rounds

\* Mutant of IsRoundZero: round 1 is run like round 0, so that the first
\* convergence check is the one on round 1.
IsRoundZero_thruOne(idx) == idx <= 1

\* "if i == 0" of the loop body.
IsRoundZero(idx) == idx = 0

\* run_debate_round_zero / run_debate_round_n up to the get_responses call.
Dispatch(n) ==
    /\ pc' = "dispatch"
    /\ round_num' = n
    /\ dispatched' = Append(dispatched, n)
    /\ GetResponsesBegin

\* Loop body, i == 0: build the round-zero prompt and dispatch it.
DebateRoundZero ==
    /\ pc = "loop" /\ InRange(i)
    /\ IsRoundZero(i)
    /\ prompt' = BuildRoundZero
    /\ Dispatch(0)
    /\ UNCHANGED <<i, all_responses, sink, ret, err, checked>>
    /\ UNCHANGED <<cfgVars, fnVars, batchVars>>

\* Loop body, i > 0: check convergence on all_responses[-1]; the check raises
\* (debate re-raises), or says converged (break, return all_responses), or the
\* round-n prompt is built from the extracted payloads and dispatched.
DebateRoundN ==
    /\ pc = "loop" /\ InRange(i)
    /\ ~IsRoundZero(i)
    /\ LET extracted_responses ==
               ExtractedResponses(LastRound(all_responses))
           conv == CheckConvergence(extracted_responses)
       IN /\ checked' = checked \cup {Len(all_responses) - 1}
          /\ IF conv.raised # "none"
             THEN /\ pc' = "raised"
                  /\ err' = conv.raised
                  /\ UNCHANGED <<prompt, round_num, ret, dispatched, ensVars>>
             ELSE IF conv.value
             THEN /\ pc' = "returned"
                  /\ ret' = <<all_responses>>
                  /\ UNCHANGED <<prompt, round_num, err, dispatched, ensVars>>
             ELSE /\ prompt' = BuildRoundN(extracted_responses)
                  /\ Dispatch(i)
                  /\ UNCHANGED <<ret, err>>
    /\ UNCHANGED <<i, all_responses, sink>>
    /\ UNCHANGED <<cfgVars, fnVars, batchVars>>

\* Mutant of DebateExhausted: the last round's answers are extracted before
\* the debate returns, and an unrecognizable one makes it raise.
DebateExhausted_checksLast ==
    /\ pc = "loop" /\ ~InRange(i)
    /\ LET conv == IF all_responses = <<>>
                   THEN [raised |-> "none", value |-> FALSE]
                   ELSE CheckConvergence(
                            ExtractedResponses(LastRound(all_responses)))
       IN /\ checked' = IF all_responses = <<>> THEN checked
                         ELSE checked \cup {Len(all_responses) - 1}
          /\ IF conv.raised # "none"
             THEN pc' = "raised" /\ err' = conv.raised /\ UNCHANGED ret
             ELSE pc' = "returned" /\ ret' = <<all_responses>>
                  /\ UNCHANGED err
    /\ UNCHANGED <<i, all_responses, prompt, round_num, sink, dispatched>>
    /\ UNCHANGED <<cfgVars, fnVars, batchVars, ensVars>>

\* range(max_rounds) is used up: return all_responses.
DebateExhausted ==
    /\ pc = "loop" /\ ~InRange(i)
    /\ pc' = "returned"
    /\ ret' = <<all_responses>>
    /\ UNCHANGED <<i, all_responses, prompt, round_num, sink, err>>
    /\ UNCHANGED <<cfgVars, fnVars, batchVars, ensVars, histVars>>

\* Mutant of WriteRound: every round is written to debate_round_0.json.
WriteRound_roundZeroFile(file, n, content) ==
    [file EXCEPT ![0] = <<content>>]

\* get_responses returned into run_debate_round_*: json.dump(responses) to
\* debate_round_<round_num>.json, then return responses.
WriteRound(file, n, content) == [file EXCEPT ![n] = <<content>>]

RoundPersist ==
    /\ pc = "dispatch" /\ epc = "returned"
    /\ sink' = WriteRound(sink, round_num, responses)
    /\ pc' = "append"
    /\ UNCHANGED <<i, all_responses, prompt, round_num, ret, err>>
    /\ UNCHANGED <<cfgVars, fnVars, batchVars, ensVars, histVars>>

\* all_responses.append(round_responses); next i.  get_responses' frame is gone.
RoundAppend ==
    /\ pc = "append"
    /\ all_responses' = Append(all_responses, responses)
    /\ i' = i + 1
    /\ pc' = "loop"
    /\ epc' = "idle"
    /\ fut' = [k \in AgentIx |-> "new"]
    /\ result' = [k \in AgentIx |-> NoResult]
    /\ collected' = {}
    /\ responses' = <<>>
    /\ provider' = [k \in AgentIx |-> NoResult]
    /\ called' = <<>>
    /\ UNCHANGED <<prompt, round_num, sink, ret, err, exc, exc_src, executing>>
    /\ UNCHANGED <<cfgVars, fnVars, batchVars, histVars>>

\* Mutant of RoundFail: the responses collected so far are dumped before the
\* exception goes on.
RoundFail_savePartial ==
    /\ pc = "dispatch" /\ epc = "raised"
    /\ pc' = "raised"
    /\ err' = exc
    /\ sink' = [sink EXCEPT ![round_num] = <<responses>>]
    /\ UNCHANGED <<i, all_responses, prompt, round_num, ret>>
    /\ UNCHANGED <<cfgVars, fnVars, batchVars, ensVars, histVars>>

\* get_responses raised: run_debate_round_* logs and re-raises, debate logs and
\* re-raises.
RoundFail ==
    /\ pc = "dispatch" /\ epc = "raised"
    /\ pc' = "raised"
    /\ err' = exc
    /\ UNCHANGED <<i, all_responses, prompt, round_num, sink, ret>>
    /\ UNCHANGED <<cfgVars, fnVars, batchVars, ensVars, histVars>>

Next ==
    \/ DebateRoundZero
    \/ DebateRoundN
    \/ DebateExhausted
    \/ Submit
    \/ \E k \in AgentIx : WorkerStart(k)
    \/ \E k \in AgentIx : \E out \in ProviderOutcomes : WorkerFinish(k, out)
    \/ \E k \in AgentIx : Collect(k)
    \/ Shutdown
    \/ \E k \in AgentIx : SeqCall(k)
    \/ \E k \in AgentIx : \E out \in ProviderOutcomes : SeqFinish(k, out)
    \/ RoundPersist
    \/ RoundAppend
    \/ RoundFail

Spec == Init /\ [][Next]_vars

\* The debate's thread and the pool's workers keep running, and a provider
\* call that was started returns or raises: a step that can be taken is taken.
SpecLive == Spec /\ WF_vars(Next)

\* ------------------------------------------- AgentsEnsemble.__init__
\* Agent.__init__: the provider's name is kept in lower case.
AgentNew(agent_id, model, provider_name) ==
    [agent_id |-> agent_id, model |-> model,
     provider |-> LowerStr(provider_name)]

\* range(quantity) has no element when quantity is 0.
RECURSIVE ExpandGroups_idPerGroup(_, _)
RECURSIVE ExpandGroups(_, _)

\* Mutant of ExpandGroups: agent_id starts at 0 again in every group.
ExpandGroups_idPerGroup(config_list, agent_id) ==
    IF config_list = <<>> THEN <<>>
    ELSE LET config == Head(config_list)
         IN [j \in 1..config.quantity |->
                AgentNew(j - 1, config.name, config.provider)]
            \o ExpandGroups_idPerGroup(Tail(config_list), 0)

\* The two loops of _initialize_from_config_list, from agent_id on: one agent
\* per unit of a group's quantity, agent_id going up by one per agent.
ExpandGroups(config_list, agent_id) ==
    IF config_list = <<>> THEN <<>>
    ELSE LET config == Head(config_list)
         IN [j \in 1..config.quantity |->
                AgentNew(agent_id + j - 1, config.name, config.provider)]
            \o ExpandGroups(Tail(config_list), agent_id + config.quantity)

Ensemble(a, members) ==
    [kind |-> "ok", agents |-> members, concurrent |-> a.concurrent,
     max_workers |-> a.max_workers]
NoEnsemble(e) == [kind |-> "raise", exception |-> e]

InitializeFromConfigList(a, config_list) ==
    IF config_list = <<>> THEN NoEnsemble("ValueError")
    ELSE Ensemble(a, ExpandGroups(config_list, 0))

\* _initialize_from_config: get_models() gives (provider, name) pairs, which
\* the loop unpacks into three names: ValueError at the first pair.
InitializeFromConfig(a, models) ==
    IF models = <<>> THEN Ensemble(a, <<>>) ELSE NoEnsemble("ValueError")

\* Mutant of EnsembleInit: an explicit empty list is taken like None.
EnsembleInit_emptyAsNone(a) ==
    IF a.agents # <<>> /\ a.agents[1] # <<>> THEN Ensemble(a, a.agents[1])
    ELSE IF a.config_list # <<>>
    THEN InitializeFromConfigList(a, a.config_list[1])
    ELSE IF a.auto_init THEN InitializeFromConfig(a, a.models)
    ELSE Ensemble(a, <<>>)

\* AgentsEnsemble.__init__.  An argument that may be None is <<>> for None
\* and <<value>> otherwise.
EnsembleInit(a) ==
    IF a.agents # <<>>
    THEN IF a.agents[1] = <<>> THEN NoEnsemble("ValueError")
         ELSE Ensemble(a, a.agents[1])
    ELSE IF a.config_list # <<>>
    THEN InitializeFromConfigList(a, a.config_list[1])
    ELSE IF a.auto_init THEN InitializeFromConfig(a, a.models)
    ELSE Ensemble(a, <<>>)

\* The constructor's arguments, and the models of the configuration file.
ProviderOllama == <<"O", "l", "l", "a", "m", "a">>
ProviderApi == <<"a", "p", "i">>

Groups ==
    {[provider |-> ProviderOllama, name |-> "m1", quantity |-> q] :
        q \in 0..MaxQuantity}
    \cup {[provider |-> ProviderApi, name |-> "m2", quantity |-> q] :
              q \in 0..MaxQuantity}

GivenAgents ==
    {AgentNew(7, "m1", ProviderOllama), AgentNew(7, "m2", ProviderApi)}

SeqsUpTo(S, n) == UNION {[1..m -> S] : m \in 0..n}

Optional(S) == {<<>>} \cup {<<x>> : x \in S}

EnsembleArguments ==
    [agents : Optional(SeqsUpTo(GivenAgents, 2)),
     auto_init : BOOLEAN,
     concurrent : BOOLEAN,
     max_workers : 1..MaxWorkers,
     config_list : Optional(SeqsUpTo(Groups, MaxGroups)),
     models : {<<>>, <<<<ProviderOllama, "m1">>>>}]

\* ------------------------------------------------- function applications
\* The functions applied on their own, to every argument of a bounded set:
\* check_convergence to the lists of up to MaxAgents payloads,
\* extract_bool_answer and Agent.respond's parsing to the texts made of up to
\* MaxPieces pieces.
RECURSIVE Concat(_)
Concat(ps) == IF ps = <<>> THEN <<>> ELSE Head(ps) \o Concat(Tail(ps))

Texts(pieces) == {Concat(ps) : ps \in SeqsUpTo(pieces, MaxPieces)}

AnswerPieces ==
    {<<"y", "e", "s">>, <<"n", "o">>, <<"t", "r", "u", "e">>,
     <<"f", "a", "l", "s", "e">>, <<"Y", "E", "S">>, <<"N", "o">>,
     <<"T", "r", "U", "e">>, <<"F", "A", "L", "S", "E">>, <<"x">>, <<"n">>}

JsonPieces ==
    {<<"{", "\"", "a", "\"", ":">>, <<"}">>, <<"{">>, <<"[">>, <<"]">>,
     <<"\"">>, <<"a">>, <<"1">>, <<"t", "r", "u", "e">>,
     <<"n", "u", "l", "l">>}

\* A raw output that is neither text nor a mapping: a number.
Number(t) == [kind |-> "int", text |-> t, exception |-> "none"]

Payloads ==
    {[kind |-> "str", text |-> TextYes], [kind |-> "str", text |-> TextNo],
     [kind |-> "str", text |-> TextHm],
     [kind |-> "str", text |-> <<"t", "r", "u", "e">>],
     [kind |-> "map", text |-> AnswerTrue]}

RawOutputs ==
    {Text(t) : t \in Texts(JsonPieces)}
        \cup {Dict(AnswerTrue), Dict(<<>>), Number(<<"1", "2">>)}

\* No debate is going on.
NoDebate ==
    /\ agents = <<0>>
    /\ concurrent = FALSE
    /\ max_workers = 1
    /\ max_rounds = 0
    /\ pc = "idle"
    /\ i = 0
    /\ all_responses = <<>>
    /\ prompt = [round |-> "none", responses |-> <<>>]
    /\ round_num = 0
    /\ sink = [r \in 0..(MaxRounds - 1) |-> <<>>]
    /\ ret = <<>>
    /\ err = "none"
    /\ epc = "idle"
    /\ fut = <<"new">>
    /\ result = <<NoResult>>
    /\ collected = {}
    /\ responses = <<>>
    /\ exc = "none"
    /\ exc_src = {}
    /\ executing = {}
    /\ provider = <<NoResult>>
    /\ called = <<>>
    /\ checked = {}
    /\ dispatched = <<>>

InitFn ==
    /\ NoDebate
    /\ NoBatch
    /\ fout = <<>>
    /\ \/ fn = "check_convergence" /\ fin \in SeqsUpTo(Payloads, MaxAgents)
       \/ /\ fn = "extract_bool_answer"
          /\ fin \in {[kind |-> "str", text |-> t] : t \in Texts(AnswerPieces)}
       \/ fn = "respond" /\ fin \in RawOutputs
       \/ fn = "AgentsEnsemble" /\ fin \in EnsembleArguments

ApplyCheckConvergence ==
    /\ fn = "check_convergence" /\ fout = <<>>
    /\ fout' = <<CheckConvergence(fin)>>
    /\ UNCHANGED <<fn, fin, cfgVars, debateVars, ensVars, histVars, batchVars>>

ApplyExtractBoolAnswer ==
    /\ fn = "extract_bool_answer" /\ fout = <<>>
    /\ fout' = <<ExtractBoolAnswer(fin)>>
    /\ UNCHANGED <<fn, fin, cfgVars, debateVars, ensVars, histVars, batchVars>>

ApplyRespond ==
    /\ fn = "respond" /\ fout = <<>>
    /\ fout' = <<AgentRespond(agents[1], fin)>>
    /\ UNCHANGED <<fn, fin, cfgVars, debateVars, ensVars, histVars, batchVars>>

ApplyAgentsEnsemble ==
    /\ fn = "AgentsEnsemble" /\ fout = <<>>
    /\ fout' = <<EnsembleInit(fin)>>
    /\ UNCHANGED <<fn, fin, cfgVars, debateVars, ensVars, histVars, batchVars>>

NextFn ==
    \/ ApplyCheckConvergence
    \/ ApplyExtractBoolAnswer
    \/ ApplyRespond
    \/ ApplyAgentsEnsemble

SpecFn == InitFn /\ [][NextFn]_vars

\* ---------------------------------------------------------- interventions
\* The encoder is known by the dissimilarities of the embeddings it gives:
\* kl[<<c, j>>] between the responses at positions c < j (counted from 0) and
\* task_kl[c] between the task and the response at position c.  The cosine
\* distance is symmetric and lies between 0 and 2; it is taken at three
\* levels.  An embedding of norm 0, whose distances are NaN, is left out.
Dissimilarities == {0, 1, 2}

\* kullback_leibler_approximation_distance of two responses' embeddings.
Kl(a, c, j) ==
    IF c = j THEN 0 ELSE IF c < j THEN a.kl[<<c, j>>] ELSE a.kl[<<j, c>>]

\* len(responses)
N(a) == Len(a.responses)

InSeq(x, seq) == \E p \in 1..Len(seq) : seq[p] = x

\* sum(kl(embeddings[i], embeddings[j]) for j in selected_indices)
RECURSIVE TotalKl(_, _, _)
TotalKl(a, c, selected_indices) ==
    IF selected_indices = <<>> THEN 0
    ELSE Kl(a, c, Head(selected_indices))
         + TotalKl(a, c, Tail(selected_indices))

\* Mutant of Exceeds: the later of two equal candidates replaces the earlier.
Exceeds_orEquals(score, max_total_kl) ==
    max_total_kl = <<>> \/ score >= max_total_kl[1]

\* Mutant of Exceeds: the candidate of least score is kept.
Exceeds_below(score, max_total_kl) ==
    max_total_kl = <<>> \/ score < max_total_kl[1]

\* max_total_kl is <<>> for float("-inf") and <<v>> for the number v.
Exceeds(score, max_total_kl) ==
    max_total_kl = <<>> \/ score > max_total_kl[1]

\* 1 - kl(task_embedding, response_embeddings[i])
Quality(a, c) == 1 - a.task_kl[c]

\* Mutant of Score: the relevance to the task is left out.
Score_diversityOnly(a, c, selected_indices) ==
    TotalKl(a, c, selected_indices)

\* What a candidate is scored with: total_kl in diversity_pruning,
\* total_kl + quality in quality_pruning.
Score(a, c, selected_indices) ==
    IF "task_kl" \in DOMAIN a
    THEN TotalKl(a, c, selected_indices) + Quality(a, c)
    ELSE TotalKl(a, c, selected_indices)

\* The for loop over the candidates from position c on; its value is
\* next_index when the loop ends (-1 when nothing was taken).
RECURSIVE FindNext(_, _, _, _, _)
FindNext(a, selected_indices, c, max_total_kl, next_index) ==
    IF c >= N(a) THEN next_index
    ELSE IF InSeq(c, selected_indices)
    THEN FindNext(a, selected_indices, c + 1, max_total_kl, next_index)
    ELSE IF Exceeds(Score(a, c, selected_indices), max_total_kl)
    THEN FindNext(a, selected_indices, c + 1,
                  <<Score(a, c, selected_indices)>>, c)
    ELSE FindNext(a, selected_indices, c + 1, max_total_kl, next_index)

\* while len(selected_indices) < selected_amount: append the next index.
RECURSIVE Select(_, _)
Select(a, selected_indices) ==
    IF Len(selected_indices) >= a.selected_amount THEN selected_indices
    ELSE Select(a, Append(selected_indices,
                          FindNext(a, selected_indices, 0, <<>>, -1)))

\* [responses[i] for i in selected_indices]
Pick(a, selected_indices) ==
    [p \in 1..Len(selected_indices) |-> a.responses[selected_indices[p] + 1]]

Returned(value) == [kind |-> "ok", value |-> value]
Raised(e) == [kind |-> "raise", exception |-> e]

\* Mutant of DiversityPruning: n = selected_amount goes through the selection.
DiversityPruning_strictShortCut(a) ==
    IF ~a.model THEN Raised("ValueError")
    ELSE IF N(a) < a.selected_amount \/ N(a) = 0 THEN Returned(a.responses)
    ELSE Returned(Pick(a, Select(a, <<0>>)))

\* Mutant of DiversityPruning: the encoder is looked at after the short cut.
DiversityPruning_shortCutFirst(a) ==
    IF N(a) <= a.selected_amount THEN Returned(a.responses)
    ELSE IF ~a.model THEN Raised("ValueError")
    ELSE Returned(Pick(a, Select(a, <<0>>)))

DiversityPruning(a) ==
    IF ~a.model THEN Raised("ValueError")
    ELSE IF N(a) <= a.selected_amount THEN Returned(a.responses)
    ELSE Returned(Pick(a, Select(a, <<0>>)))

\* max(range(n), key=...) from position c on: the first position of
\* greatest key, best being the one found so far.
RECURSIVE MaxByQuality(_, _, _)
MaxByQuality(a, c, best) ==
    IF c >= N(a) THEN best
    ELSE IF Quality(a, c) > Quality(a, best) THEN MaxByQuality(a, c + 1, c)
    ELSE MaxByQuality(a, c + 1, best)

\* Mutant of Seed: the selection starts at the first response.
Seed_first(a) == <<0>>

\* selected_indices before the loop of quality_pruning.
Seed(a) == <<MaxByQuality(a, 1, 0)>>

QualityPruning(a) ==
    IF ~a.model THEN Raised("ValueError")
    ELSE IF N(a) <= a.selected_amount THEN Returned(a.responses)
    ELSE Returned(Pick(a, Select(a, Seed(a))))

\* The arguments: n responses, pairwise different strings named by their
\* position, a selected_amount from 0 to n + 1, an encoder or None.
Response(c) == <<"r", c>>
Responses(n) == [p \in 1..n |-> Response(p - 1)]
Pairs(n) == {ij \in (0..(n - 1)) \X (0..(n - 1)) : ij[1] < ij[2]}

DiversityArguments ==
    UNION {[responses : {Responses(n)},
            selected_amount : 0..(n + 1),
            model : BOOLEAN,
            kl : [Pairs(n) -> Dissimilarities]] : n \in 0..MaxResponses}

QualityArguments ==
    UNION {[responses : {Responses(n)},
            selected_amount : 0..(n + 1),
            model : BOOLEAN,
            kl : [Pairs(n) -> Dissimilarities],
            task_kl : [0..(n - 1) -> Dissimilarities]] :
               n \in 0..MaxQualityResponses}

InitPrune ==
    /\ NoDebate
    /\ NoBatch
    /\ fout = <<>>
    /\ \/ fn = "diversity_pruning" /\ fin \in DiversityArguments
       \/ fn = "quality_pruning" /\ fin \in QualityArguments

ApplyDiversityPruning ==
    /\ fn = "diversity_pruning" /\ fout = <<>>
    /\ fout' = <<DiversityPruning(fin)>>
    /\ UNCHANGED <<fn, fin, cfgVars, debateVars, ensVars, histVars, batchVars>>

ApplyQualityPruning ==
    /\ fn = "quality_pruning" /\ fout = <<>>
    /\ fout' = <<QualityPruning(fin)>>
    /\ UNCHANGED <<fn, fin, cfgVars, debateVars, ensVars, histVars, batchVars>>

NextPrune ==
    \/ ApplyDiversityPruning
    \/ ApplyQualityPruning

SpecPrune == InitPrune /\ [][NextPrune]_vars

\* quality_pruning where it selects: an encoder, and 1 <= selected_amount < n.
SelectionArguments ==
    UNION {[responses : {Responses(n)},
            selected_amount : 1..(n - 1),
            model : {TRUE},
            kl : [Pairs(n) -> Dissimilarities],
            task_kl : [0..(n - 1) -> Dissimilarities]] :
               n \in 2..MaxCandidates}

InitQuality ==
    /\ NoDebate
    /\ NoBatch
    /\ fout = <<>>
    /\ fn = "quality_pruning"
    /\ fin \in SelectionArguments

NextQuality == ApplyQualityPruning

SpecQuality == InitQuality /\ [][NextQuality]_vars

\* ------------------------------------------------------------ run_debate.py
\* How a debate of max_rounds mr can end, as the number of rounds it stored
\* (debate_round_0.json up to debate_round_<rounds - 1>.json) and whether it
\* returned or raised: it returns after the last round or when a round
\* i >= 1 finds the round before it converged; it raises when get_responses
\* or check_convergence does.
DebateOutcomes(mr) ==
    {[rounds |-> m, outcome |-> "returned"] : m \in (1..mr) \cup {mr}}
    \cup {[rounds |-> m, outcome |-> "raised"] : m \in 0..(mr - 1)}

\* run_debate_single_entry past the skip test: AgentsEnsemble(config_list=...)
\* raises, before any round, or debate runs.
SingleEntryOutcomes(mr) ==
    DebateOutcomes(mr) \cup {[rounds |-> 0, outcome |-> "raised"]}

NoDirectory == [exists |-> FALSE, files |-> [r \in 0..(MaxRounds - 1) |-> <<>>]]

\* "if output_dir.exists() and not overwrite: ... if any(f.exists() ...)" over
\* debate_round_<i>.json for i in range(max_rounds).
Skipped(dir, ow, mr) ==
    /\ dir.exists
    /\ ~ow
    /\ \E r \in 0..(mr - 1) : dir.files[r] # <<>>

\* output_dir after mkdir and a debate that stored the given number of
\* rounds: each round's file is opened with "w"; no file is removed.
Debated(dir, rounds, run) ==
    [exists |-> TRUE,
     files |-> [r \in 0..(MaxRounds - 1) |->
                   IF r < rounds THEN <<run>> ELSE dir.files[r]]]

\* (processed_count / total_entries) * 100 if total_entries > 0 else 0, as
\* the fraction <<numerator, denominator>>.
SuccessRate(processed, total) ==
    IF total > 0 THEN <<processed * 100, total>> ELSE <<0, 1>>

InitBatch ==
    /\ NoDebate
    /\ fn = "none" /\ fin = <<>> /\ fout = <<>>
    /\ \E n \in 0..MaxEntries : dataframe = [k \in 1..n |-> k]
    /\ overwrite = FALSE
    /\ bpc = "idle"
    /\ entry_ix = 0
    /\ processed_count = 0
    /\ failed_entries = <<>>
    /\ summary = <<>>
    /\ base_dir = [k \in 1..Len(dataframe) |-> NoDirectory]
    /\ run_no = 0
    /\ last_debate = [k \in 1..Len(dataframe) |-> <<>>]
    /\ skips = {}

\* run_debate is called: the counters are reset and the dataframe's columns
\* are tested; a missing column raises RuntimeError before any entry.
RunDebateBegin(mr, ow, columns_ok) ==
    /\ bpc \in {"idle", "returned", "raised"}
    /\ run_no < MaxBatchRuns
    /\ (run_no + 1) * Len(dataframe) <= MaxDebates
    /\ run_no' = run_no + 1
    /\ max_rounds' = mr
    /\ overwrite' = ow
    /\ processed_count' = 0
    /\ failed_entries' = <<>>
    /\ entry_ix' = 0
    /\ summary' = <<>>
    /\ skips' = {}
    /\ bpc' = IF columns_ok THEN "loop" ELSE "raised"
    /\ UNCHANGED <<dataframe, base_dir, last_debate>>
    /\ UNCHANGED <<agents, concurrent, max_workers>>
    /\ UNCHANGED <<debateVars, ensVars, histVars, fnVars>>

\* Mutant of RunEntry: the first entry that fails ends the loop.
RunEntry_stopAtFailure(out) ==
    /\ bpc = "loop" /\ entry_ix < Len(dataframe)
    /\ LET id_ == dataframe[entry_ix + 1]
           output_dir == base_dir[id_]
       IN IF Skipped(output_dir, overwrite, max_rounds)
          THEN /\ processed_count' = processed_count + 1
               /\ skips' = skips \cup {id_}
               /\ entry_ix' = entry_ix + 1
               /\ UNCHANGED <<failed_entries, base_dir, last_debate>>
          ELSE /\ base_dir' = [base_dir EXCEPT
                                 ![id_] = Debated(@, out.rounds, run_no)]
               /\ last_debate' = [last_debate EXCEPT
                                    ![id_] = <<[run |-> run_no,
                                                rounds |-> out.rounds,
                                                outcome |-> out.outcome]>>]
               /\ IF out.outcome = "returned"
                  THEN /\ processed_count' = processed_count + 1
                       /\ entry_ix' = entry_ix + 1
                       /\ UNCHANGED failed_entries
                  ELSE /\ failed_entries' =
                              Append(failed_entries,
                                     [id |-> id_, error |-> "RuntimeError"])
                       /\ entry_ix' = Len(dataframe)
                       /\ UNCHANGED processed_count
               /\ UNCHANGED skips
    /\ UNCHANGED <<dataframe, overwrite, bpc, summary, run_no>>
    /\ UNCHANGED <<cfgVars, debateVars, ensVars, histVars, fnVars>>

\* One iteration of "for _, entry in dataframe.iterrows()":
\* run_debate_single_entry returns at once for an entry it skips, else makes
\* the directory, builds the ensemble and debates; what it raises it raises
\* as RuntimeError, which the loop records with the entry's id.
RunEntry(out) ==
    /\ bpc = "loop" /\ entry_ix < Len(dataframe)
    /\ LET id_ == dataframe[entry_ix + 1]
           output_dir == base_dir[id_]
       IN IF Skipped(output_dir, overwrite, max_rounds)
          THEN /\ processed_count' = processed_count + 1
               /\ skips' = skips \cup {id_}
               /\ UNCHANGED <<failed_entries, base_dir, last_debate>>
          ELSE /\ base_dir' = [base_dir EXCEPT
                                 ![id_] = Debated(@, out.rounds, run_no)]
               /\ last_debate' = [last_debate EXCEPT
                                    ![id_] = <<[run |-> run_no,
                                                rounds |-> out.rounds,
                                                outcome |-> out.outcome]>>]
               /\ IF out.outcome = "returned"
                  THEN /\ processed_count' = processed_count + 1
                       /\ UNCHANGED failed_entries
                  ELSE /\ failed_entries' =
                              Append(failed_entries,
                                     [id |-> id_, error |-> "RuntimeError"])
                       /\ UNCHANGED processed_count
               /\ UNCHANGED skips
    /\ entry_ix' = entry_ix + 1
    /\ UNCHANGED <<dataframe, overwrite, bpc, summary, run_no>>
    /\ UNCHANGED <<cfgVars, debateVars, ensVars, histVars, fnVars>>

\* The loop is over: the finally block counts and run_debate returns.
RunDebateReturn ==
    /\ bpc = "loop" /\ entry_ix >= Len(dataframe)
    /\ bpc' = "returned"
    /\ summary' = <<[total_entries |-> Len(dataframe),
                     processed_count |-> processed_count,
                     failed_entries |-> failed_entries,
                     success_rate |->
                         SuccessRate(processed_count, Len(dataframe))]>>
    /\ UNCHANGED <<dataframe, overwrite, entry_ix, processed_count,
                   failed_entries, base_dir, run_no, last_debate, skips>>
    /\ UNCHANGED <<cfgVars, debateVars, ensVars, histVars, fnVars>>

NextBatch ==
    \/ \E mr \in 0..MaxRounds : \E ow \in BOOLEAN : \E columns_ok \in BOOLEAN :
           RunDebateBegin(mr, ow, columns_ok)
    \/ \E out \in SingleEntryOutcomes(max_rounds) : RunEntry(out)
    \/ RunDebateReturn

SpecBatch == InitBatch /\ [][NextBatch]_vars

\* ------------------------------------------------------ claim vocabulary
Terminal == pc \in {"returned", "raised"}

\* The normalized answers of a recorded round.
Answers(round) == {ExtractBoolAnswer(round[p].response) : p \in 1..Len(round)}

\* Every agent's answer in the round is recognized.
Recognized(round) == Answers(round) \subseteq {"true", "false"}

\* All agents' normalized answers in the round are identical.
AllAgree(round) == Recognized(round) /\ Cardinality(Answers(round)) = 1

\* The round numbers 0 .. n-1 in order.
RoundNumbers(n) == [j \in 1..n |-> j - 1]

\* ---------------------------------------------------------------- claims
\* C1: with max_rounds >= 2, once round 0 is recorded with all agents'
\* normalized answers identical, convergence is checked on round 0 before any
\* round-1 prompt is built, no further round is dispatched, and debate returns
\* exactly one round, round 0.
C1_Round0AgreementStops ==
    (max_rounds >= 2 /\ Len(all_responses) >= 1 /\ AllAgree(all_responses[1]))
    => /\ Len(all_responses) = 1
       /\ dispatched = <<0>>
       /\ prompt = BuildRoundZero
       /\ pc \in {"loop", "returned"}
       /\ pc = "loop" => i = 1 /\ checked = {}
       /\ pc = "returned" => checked = {0} /\ ret = <<all_responses>>

C1_Witness ==
    /\ max_rounds >= 2 /\ NumAgents >= 2
    /\ pc = "returned" /\ checked = {0}
    /\ Len(ret[1]) = 1 /\ AllAgree(ret[1][1])

\* C2 as stated: with max_rounds > 1 convergence is never evaluated on round
\* 0's responses, and round 1 is dispatched after round 0 whatever round 0's
\* answers are.
C2_Original ==
    /\ 0 \notin checked
    /\ (max_rounds > 1 /\ Terminal /\ Len(all_responses) >= 1)
          => Len(dispatched) >= 2

\* C2 amended: with max_rounds > 1 the first convergence check is the one on
\* round 0's responses, made before round 1's prompt is built; round 1 is
\* dispatched exactly when that check raises nothing and finds round 0's
\* answers not all identical.
C2_Round1AfterCheckOfRound0 ==
    /\ checked # {} => 0 \in checked
    /\ Len(dispatched) >= 2
          => /\ 0 \in checked
             /\ Recognized(all_responses[1]) /\ ~AllAgree(all_responses[1])
    /\ (max_rounds > 1 /\ Terminal /\ Len(all_responses) >= 1
          /\ Recognized(all_responses[1]) /\ ~AllAgree(all_responses[1]))
          => Len(dispatched) >= 2
    /\ prompt.round = "n" => 0 \in checked

C2_Witness ==
    /\ max_rounds > 1
    /\ pc = "dispatch" /\ dispatched = <<0, 1>>
    /\ checked = {0}
    /\ prompt = BuildRoundN(ExtractedResponses(all_responses[1]))

\* C3: for every i >= 1, once round i is recorded with all agents' normalized
\* answers identical, round i+1 is never dispatched, debate does not raise,
\* and what it returns is exactly rounds 0..i.
C3_AgreementInRoundIStops ==
    \A r \in 2..Len(all_responses) :
        AllAgree(all_responses[r])
        => /\ Len(all_responses) = r
           /\ dispatched = RoundNumbers(r)
           /\ pc \in {"loop", "returned"}
           /\ pc = "returned" => ret = <<all_responses>>

C3_Witness ==
    /\ max_rounds = 3 /\ NumAgents >= 2
    /\ pc = "returned" /\ Len(ret[1]) = 2
    /\ AllAgree(ret[1][2]) /\ ~AllAgree(ret[1][1])
    /\ checked = {0, 1}

\* C4: when debate has ended, no agent call raised, no recorded round has all
\* answers identical and every round before the last permitted one has only
\* recognized answers, debate has dispatched exactly max_rounds rounds,
\* returned all of them and raised nothing.
C4_ExhaustedReturnsAllRounds ==
    (/\ Terminal
     /\ exc = "none"
     /\ \A r \in 1..Len(all_responses) :
           /\ ~AllAgree(all_responses[r])
           /\ r < max_rounds => Recognized(all_responses[r]))
    => /\ pc = "returned" /\ err = "none"
       /\ ret = <<all_responses>>
       /\ Len(all_responses) = max_rounds
       /\ dispatched = RoundNumbers(max_rounds)

C4_Witness ==
    /\ max_rounds = 3 /\ NumAgents >= 2
    /\ pc = "returned" /\ Len(ret[1]) = 3
    /\ \A r \in 1..3 : Recognized(ret[1][r]) /\ ~AllAgree(ret[1][r])

\* C5: the number of recorded rounds never exceeds max_rounds, and the
\* recorded rounds are the dispatches 0, 1, 2, ... in order: the j-th
\* recorded round is what the dispatch with round number j returned and
\* stored under round number j.
C5_RoundsBoundedAndConsecutive ==
    /\ Len(all_responses) <= max_rounds
    /\ Len(dispatched) <= max_rounds
    /\ dispatched = RoundNumbers(Len(dispatched))
    /\ Len(dispatched) \in {Len(all_responses), Len(all_responses) + 1}
    /\ \A j \in 1..Len(all_responses) : sink[j - 1] = <<all_responses[j]>>

C5_Witness ==
    /\ max_rounds >= 1
    /\ Terminal
    /\ Len(all_responses) = max_rounds
    /\ dispatched = RoundNumbers(max_rounds)

\* C6: once the dispatch of round i has raised LLMConnectionError, debate
\* raises that error and returns nothing, no later round is dispatched, and
\* no response of round i is stored or recorded, also when some agents of
\* the round answered.
C6_ConnectionFailureAbortsDebate ==
    (epc = "raised" /\ exc = "LLMConnectionError")
    => /\ pc \in {"dispatch", "raised"}
       /\ pc = "raised" => err = "LLMConnectionError" /\ ret = <<>>
       /\ dispatched = RoundNumbers(i + 1)
       /\ Len(all_responses) = i
       /\ \A r \in DOMAIN sink : r >= i => sink[r] = <<>>

C6_Witness ==
    /\ pc = "raised" /\ err = "LLMConnectionError"
    /\ i >= 1
    /\ \E k \in AgentIx : result[k].kind = "ok"

\* C7: every recorded round is in the sink as it was returned; a round is in
\* the sink before convergence is checked on it and before the next round is
\* dispatched; and a stored round is never changed or removed afterwards,
\* whatever happens to the debate.
C7_RoundsPersistedAtOnce ==
    /\ [](\A j \in 1..Len(all_responses) : sink[j - 1] = <<all_responses[j]>>)
    /\ [](\A r \in checked : sink[r] # <<>>)
    /\ [](\A d \in 2..Len(dispatched) : sink[dispatched[d] - 1] # <<>>)
    /\ [][\A r \in DOMAIN sink : sink[r] # <<>> => sink'[r] = sink[r]]_vars

C7_Witness ==
    /\ pc = "raised" /\ err \in {"LLMConnectionError", "ValueError"}
    /\ i >= 1
    /\ \A r \in 0..(i - 1) : sink[r] = <<all_responses[r + 1]>>

\* C8: every round in all_responses holds exactly one response of every agent
\* of the ensemble and is in the sink already; the round being dispatched is
\* in the list only after it has been stored, and a round whose dispatch
\* raised is never in the list.
C8_OnlyCompleteRoundsRecorded ==
    /\ \A j \in 1..Len(all_responses) :
          /\ Len(all_responses[j]) = NumAgents
          /\ \A k \in AgentIx :
                Cardinality({p \in 1..Len(all_responses[j]) :
                               all_responses[j][p].agent_id = agents[k]}) = 1
          /\ sink[j - 1] = <<all_responses[j]>>
    /\ pc = "dispatch" => Len(all_responses) = Len(dispatched) - 1
    /\ epc = "raised" => Len(all_responses) = Len(dispatched) - 1

C8_Witness ==
    /\ Len(all_responses) = 2 /\ NumAgents = 3
    /\ concurrent
    /\ all_responses[2][1].agent_id = agents[3]

\* C9: every agent call that is executing belongs to the round debate is
\* dispatching now; none is executing while the next prompt is built, while
\* a round is stored or recorded, or after debate has returned or raised.
C9_RoundsNeverOverlap ==
    \A c \in executing : pc = "dispatch" /\ c[1] = i

C9_Witness ==
    /\ concurrent /\ i >= 1
    /\ Cardinality(executing) >= 2
    /\ \E k \in AgentIx : result[k].kind = "raise"

\* C10: in both modes and for every completion order, the list a successful
\* get_responses returns holds exactly one response per agent of the
\* ensemble (agent ids being unique): as many responses as agents, and each
\* agent's id exactly once.
IdsUnique == \A a, b \in AgentIx : agents[a] = agents[b] => a = b

C10_OneResponsePerAgent ==
    (epc = "returned" /\ IdsUnique)
    => /\ Len(responses) = NumAgents
       /\ \A k \in AgentIx :
             Cardinality({p \in 1..Len(responses) :
                            responses[p].agent_id = agents[k]}) = 1

C10_Witness ==
    /\ epc = "returned" /\ concurrent /\ NumAgents = 3
    /\ responses[1].agent_id = agents[3]
    /\ responses[3].agent_id = agents[1]

\* Some agent's respond raised LLMConnectionError in the get_responses call
\* that has raised.
ConnectionFailureRaised ==
    /\ epc = "raised"
    /\ \E k \in AgentIx :
          result[k].kind = "raise" /\ result[k].exception = "LLMConnectionError"

\* The agents 1..n in order.
InOrder(n) == [j \in 1..n |-> j]

\* C11: in both modes, when get_responses raises after some agent raised
\* LLMConnectionError, every agent of the ensemble has been called and has
\* finished, none being skipped or cut short.
C11_AllAgentsFinishBeforeRaise ==
    ConnectionFailureRaised
    => /\ \A k \in AgentIx :
             fut[k] = "done" /\ (\E p \in 1..Len(called) : called[p] = k)
       /\ executing = {}

\* The agents whose respond raised LLMConnectionError in the current call.
ConnectionFailed ==
    {k \in AgentIx :
        result[k].kind = "raise" /\ result[k].exception = "LLMConnectionError"}

\* C12: when two or more agents raised LLMConnectionError in the
\* get_responses call that has raised, what get_responses raises is an
\* LLMConnectionError that carries the failure of every one of them.
C12_FailureCarriesEveryFailedAgent ==
    (epc = "raised" /\ Cardinality(ConnectionFailed) >= 2)
    => exc = "LLMConnectionError" /\ ConnectionFailed \subseteq exc_src

\* C13: in sequential mode at most one agent call is executing at a time, the
\* agents are called in the order of the ensemble, each one only after the
\* one before it has returned, and the k-th response of the list is the k-th
\* agent's; a list that is returned has one response per agent.
C13_SequentialInEnsembleOrder ==
    ~concurrent
    => /\ Cardinality(executing) <= 1
       /\ called = InOrder(Len(called))
       /\ \A k \in AgentIx :
             fut[k] # "new" => \A q \in 1..(k - 1) : result[q].kind = "ok"
       /\ \A p \in 1..Len(responses) :
             responses[p] = result[p].value /\ responses[p].agent_id = agents[p]
       /\ epc = "returned" => Len(responses) = NumAgents

C13_Witness ==
    /\ ~concurrent /\ NumAgents = 3
    /\ epc = "returned"
    /\ called = <<1, 2, 3>>
    /\ \A p \in 1..3 : responses[p].agent_id = agents[p]

\* C14: in concurrent mode the respond calls executing at any time all belong
\* to the current get_responses call and are at most max_workers, and when
\* get_responses has returned or raised its pool is gone: no call of it is
\* executing and no work item is left waiting for a worker.
C14_PoolBoundedAndTornDown ==
    concurrent
    => /\ Cardinality(executing) <= max_workers
       /\ executing = {<<i, k>> : k \in Running}
       /\ epc \in {"returned", "raised"}
             => executing = {} /\ Running = {} /\ Queued = {}

C14_Witness ==
    /\ concurrent /\ NumAgents = 3 /\ max_workers = 2
    /\ Cardinality(executing) = 2
    /\ Queued # {}

\* C15: a provider timeout in an agent's respond call is a TimeoutError in
\* that agent's future, never an LLMConnectionError; what get_responses
\* raises is one agent's exception as that agent raised it, so a timeout that
\* reaches the caller reaches it as TimeoutError, and it is TimeoutError
\* whenever timeouts are the only failures of the call; and no agent's
\* respond is called more than once in one get_responses call.
TimedOut == {k \in AgentIx : provider[k] = Raise("requests.Timeout")}
Failed == {k \in AgentIx : result[k].kind = "raise"}

C15_TimeoutStaysTimeoutAndNoRetry ==
    /\ \A k \in TimedOut :
          result[k] = [kind |-> "raise", exception |-> "TimeoutError"]
    /\ epc = "raised"
          => /\ \E k \in Failed : exc_src = {k} /\ exc = result[k].exception
             /\ exc_src \subseteq TimedOut => exc = "TimeoutError"
             /\ Failed \subseteq TimedOut => exc = "TimeoutError"
    /\ \A k \in AgentIx :
          Cardinality({p \in 1..Len(called) : called[p] = k}) <= 1

C15_Witness ==
    /\ epc = "raised" /\ exc = "TimeoutError"
    /\ concurrent /\ NumAgents >= 2
    /\ \E k \in TimedOut : exc_src = {k}
    /\ \E k \in AgentIx : result[k].kind = "ok"

\* A text payload in which no answer token occurs; a mapping payload.
NoAnswerInText(payload) ==
    payload.kind = "str" /\ ExtractBoolAnswer(payload) = "ValueError"
Structured(payload) == payload.kind = "map"

\* C17: once convergence has been checked on a round in which some response
\* has no recognizable answer, debate has raised the parser's ValueError
\* ("Answer not recognized"), has returned nothing and has dispatched no
\* round after the checked one.
C17_UnrecognizedAnswerPropagates ==
    \A r \in checked :
        (\E p \in 1..Len(all_responses[r + 1]) :
            NoAnswerInText(all_responses[r + 1][p].response))
        => /\ pc = "raised" /\ err = "ValueError"
           /\ ret = <<>>
           /\ dispatched = RoundNumbers(r + 1)

\* C19: once convergence has been checked on a round whose responses are all
\* mappings carrying a boolean answer, the check has yielded a boolean:
\* debate has not raised from it.
C19_StructuredRoundYieldsBoolean ==
    \A r \in checked :
        (\A p \in 1..Len(all_responses[r + 1]) :
            Structured(all_responses[r + 1][p].response))
        => pc # "raised" /\ err = "none"

\* The normalized answers of a list of payloads, and whether every payload
\* has one.
Normalized(payloads) ==
    {ExtractBoolAnswer(payloads[p]) : p \in 1..Len(payloads)}
        \cap {"true", "false"}
AllRecognized(payloads) ==
    \A p \in 1..Len(payloads) :
        ExtractBoolAnswer(payloads[p]) \in {"true", "false"}
SameAnswer(payloads) ==
    /\ AllRecognized(payloads)
    /\ \A p, q \in 1..Len(payloads) :
          ExtractBoolAnswer(payloads[p]) = ExtractBoolAnswer(payloads[q])
Applied(f) == fn = f /\ fout # <<>>
ReturnedBool(b) == fout[1].raised = "none" /\ fout[1].value = b

\* C16 as stated: check_convergence returns true iff every response of the
\* list extracts to the same normalized answer, and returns false whenever
\* the list holds at least two distinct normalized answers.
C16_Original ==
    Applied("check_convergence")
    => /\ ReturnedBool(TRUE) <=> SameAnswer(fin)
       /\ Cardinality(Normalized(fin)) >= 2 => ReturnedBool(FALSE)

\* C16 amended: for a list that is not empty and in which every response has
\* a recognizable answer, check_convergence returns true iff all the answers
\* are the same one and false iff there are two distinct ones; it returns
\* true for no other list; it raises, returning nothing, as soon as one
\* response has no answer that extraction recognizes, also when two distinct
\* answers are present; and it returns false for the empty list.
C16_TrueIffOneAnswerAmongRecognized ==
    Applied("check_convergence")
    => /\ (fin # <<>> /\ AllRecognized(fin))
             => /\ ReturnedBool(TRUE) <=> Cardinality(Normalized(fin)) = 1
                /\ ReturnedBool(FALSE) <=> Cardinality(Normalized(fin)) = 2
                /\ fout[1].raised = "none"
       /\ ReturnedBool(TRUE) => fin # <<>> /\ SameAnswer(fin)
       /\ ~AllRecognized(fin) => fout[1].raised # "none"
       /\ fin = <<>> => ReturnedBool(FALSE)

C16_Witness ==
    /\ Applied("check_convergence")
    /\ Len(fin) = 3 /\ AllRecognized(fin)
    /\ fin[1] # fin[3]
    /\ ReturnedBool(TRUE)

\* The 0-based indices at which a token occurs in a text, in either case of
\* each letter.
CasePairs ==
    {<<"T", "t">>, <<"R", "r">>, <<"U", "u">>, <<"E", "e">>, <<"Y", "y">>,
     <<"S", "s">>, <<"F", "f">>, <<"A", "a">>, <<"L", "l">>, <<"N", "n">>,
     <<"O", "o">>}
OccursAt(s, tok, p) ==
    /\ p + Len(tok) <= Len(s)
    /\ \A j \in 1..Len(tok) : s[p + j] = tok[j] \/ <<s[p + j], tok[j]>> \in CasePairs
AffirmativeAt(s) ==
    {p \in 0..(Len(s) - 1) :
        OccursAt(s, <<"t", "r", "u", "e">>, p) \/ OccursAt(s, <<"y", "e", "s">>, p)}
NegativeAt(s) ==
    {p \in 0..(Len(s) - 1) :
        OccursAt(s, <<"f", "a", "l", "s", "e">>, p) \/ OccursAt(s, <<"n", "o">>, p)}

\* C18: extract_bool_answer of a text, letters taken in either case, is
\* "true" iff an affirmative token (true, yes) occurs and its last occurrence
\* starts after every occurrence of a negative token (false, no); "false"
\* iff a negative token occurs and its last occurrence starts after every
\* occurrence of an affirmative one; and it raises ValueError ("Answer not
\* recognized") iff no token of either class occurs.
C18_LastTokenDecides ==
    Applied("extract_bool_answer")
    => LET aff == AffirmativeAt(fin.text)
           neg == NegativeAt(fin.text)
       IN /\ fout[1] \in {"true", "false", "ValueError"}
          /\ fout[1] = "true"
                <=> (aff # {} /\ \A q \in neg : q < SetMax(aff))
          /\ fout[1] = "false"
                <=> (neg # {} /\ \A q \in aff : q < SetMax(neg))
          /\ fout[1] = "ValueError" <=> (aff = {} /\ neg = {})

C18_Witness ==
    /\ Applied("extract_bool_answer")
    /\ fout = <<"true">>
    /\ Cardinality(AffirmativeAt(fin.text)) >= 2
    /\ NegativeAt(fin.text) # {}
    /\ SetMin(AffirmativeAt(fin.text)) < SetMin(NegativeAt(fin.text))
    /\ fin.text # LowerStr(fin.text)

\* json.dumps without white space: the text of a parsed value.
Dumps(v) ==
    CASE v.kind = "str" -> <<"\"">> \o v.text \o <<"\"">>
      [] v.kind = "map" -> <<"{">> \o v.text \o <<"}">>
      [] v.kind = "list" -> <<"[">> \o v.text \o <<"]">>
      [] v.kind = "null" -> <<"n", "u", "l", "l">>
      [] OTHER -> v.text

RawContent(t) ==
    [kind |-> "map",
     text |-> <<"\"", "r", "a", "w", "_", "c", "o", "n", "t", "e", "n", "t",
                "\"", ":", "\"">> \o t \o <<"\"">>]
NotJson(raw) ==
    raw.kind = "int" \/ (raw.kind = "text" /\ ~JsonLoads(raw.text).ok)

C22_ResponseIsMappingOrString ==
    Applied("respond") => fout[1].value.response.kind \in {"map", "str"}

\* C23: AgentsEnsemble constructed with an explicit empty list of agents
\* raises ValueError and yields no ensemble, whatever auto_init, concurrent,
\* max_workers, config_list and the configuration file are.
C23_EmptyAgentListRejected ==
    (Applied("AgentsEnsemble") /\ fin.agents = <<<<>>>>)
    => fout[1] = [kind |-> "raise", exception |-> "ValueError"]

C23_Witness ==
    /\ Applied("AgentsEnsemble")
    /\ fin.agents = <<<<>>>>
    /\ fin.config_list # <<>> /\ fin.config_list[1] # <<>>
    /\ fin.config_list[1][1].quantity > 0
    /\ ~fin.auto_init
    /\ fout[1].kind = "raise"

\* Claim vocabulary for construction from a list of groups: the number of
\* agents the first g groups ask for, and the group the i-th agent belongs to.
RECURSIVE QuantityUpTo(_, _)
QuantityUpTo(config_list, g) ==
    IF g = 0 THEN 0
    ELSE QuantityUpTo(config_list, g - 1) + config_list[g].quantity

GroupOf(config_list, j) ==
    config_list[CHOOSE g \in 1..Len(config_list) :
                   /\ QuantityUpTo(config_list, g - 1) < j
                   /\ j <= QuantityUpTo(config_list, g)]

FromConfigList ==
    /\ Applied("AgentsEnsemble")
    /\ fin.agents = <<>>
    /\ fin.config_list # <<>> /\ fin.config_list[1] # <<>>

ExpandedInOrder(config_list, built) ==
    /\ built.kind = "ok"
    /\ Len(built.agents) = QuantityUpTo(config_list, Len(config_list))
    /\ \A j \in 1..Len(built.agents) :
          /\ built.agents[j].agent_id = j - 1
          /\ built.agents[j].model = GroupOf(config_list, j).name

Pruned(f) == Applied(f) /\ fin.model
PrunedAny == Pruned("diversity_pruning") \/ Pruned("quality_pruning")
PositionOf(r) == CHOOSE c \in 0..(N(fin) - 1) : fin.responses[c + 1] = r
Positions == [p \in 1..Len(fout[1].value) |-> PositionOf(fout[1].value[p])]

\* C25: for 0 <= k <= n a pruning returns exactly k responses, each from an
\* input position of its own.
C25_ExactlyKFromDistinctPositions ==
    (PrunedAny /\ fin.selected_amount <= N(fin)) =>
        /\ fout[1].kind = "ok"
        /\ Len(fout[1].value) = fin.selected_amount
        /\ \A p \in 1..Len(fout[1].value) :
              /\ InSeq(fout[1].value[p], fin.responses)
              /\ \A q \in 1..Len(fout[1].value) :
                    p # q => fout[1].value[p] # fout[1].value[q]

\* C26: with n <= k a pruning returns the n responses as they were given, in
\* the same order; a single response pruned to 1 comes back alone.
C26_NothingToPrune ==
    (PrunedAny /\ N(fin) <= fin.selected_amount) =>
        fout[1] = [kind |-> "ok", value |-> fin.responses]

C26_Witness ==
    /\ Pruned("diversity_pruning")
    /\ N(fin) = 3 /\ fin.selected_amount = 3
    /\ fin.kl[<<0, 1>>] < fin.kl[<<0, 2>>]
    /\ fout[1].value = <<Response(0), Response(1), Response(2)>>

\* C27: a pruning without an encoder raises ValueError whatever the
\* responses and k are, n <= k included, and returns nothing.
C27_NoEncoderRejected ==
    ((Applied("diversity_pruning") \/ Applied("quality_pruning"))
     /\ ~fin.model)
    => fout[1] = [kind |-> "raise", exception |-> "ValueError"]

C27_Witness ==
    /\ Applied("diversity_pruning")
    /\ ~fin.model
    /\ N(fin) = 1 /\ fin.selected_amount = 1
    /\ fout[1].kind = "raise"

\* The reference greedy selection: sel starts at position 0 and each later
\* position is, among those not taken before, one of greatest sum of
\* dissimilarities to those taken before, the lowest such position.
RECURSIVE SumBefore(_, _, _)
SumBefore(sel, p, c) ==
    IF p = 1 THEN 0 ELSE SumBefore(sel, p - 1, c) + Kl(fin, c, sel[p - 1])

TakenBefore(sel, p, c) == \E q \in 1..(p - 1) : sel[q] = c

ReferenceGreedy(sel) ==
    /\ sel[1] = 0
    /\ \A p \in 2..Len(sel) :
          /\ ~TakenBefore(sel, p, sel[p])
          /\ \A c \in 0..(N(fin) - 1) :
                ~TakenBefore(sel, p, c) =>
                    \/ SumBefore(sel, p, c) < SumBefore(sel, p, sel[p])
                    \/ /\ SumBefore(sel, p, c) = SumBefore(sel, p, sel[p])
                       /\ sel[p] <= c

\* C28: for n > k >= 1 diversity_pruning returns, in the order of selection,
\* the k responses of the reference greedy selection.
C28_DiversityIsReferenceGreedy ==
    (Pruned("diversity_pruning")
     /\ 1 <= fin.selected_amount /\ fin.selected_amount < N(fin))
    => /\ fout[1].kind = "ok"
       /\ Len(fout[1].value) = fin.selected_amount
       /\ ReferenceGreedy(Positions)

\* Two equal candidates at the third step, the lower position taken, and the
\* result not in input order.
C28_Witness ==
    /\ Pruned("diversity_pruning")
    /\ N(fin) = 4 /\ fin.selected_amount = 3
    /\ Positions = <<0, 3, 1>>
    /\ Kl(fin, 1, 0) + Kl(fin, 1, 3) = Kl(fin, 2, 0) + Kl(fin, 2, 3)

\* Two responses are near-duplicates: dissimilarity 0 to each other and the
\* same dissimilarity to every other response.
NearDuplicates(c, j) ==
    /\ c # j
    /\ Kl(fin, c, j) = 0
    /\ \A u \in 0..(N(fin) - 1) : Kl(fin, c, u) = Kl(fin, j, u)

IsSelected(c) == InSeq(c, Positions)

\* A response is unrelated when it is at a positive dissimilarity from every
\* response that was returned.
Unrelated(u) == \A c \in 0..(N(fin) - 1) : IsSelected(c) => Kl(fin, u, c) > 0

C30_QualitySeedMostRelevant ==
    (Pruned("quality_pruning")
     /\ 1 <= fin.selected_amount /\ fin.selected_amount < N(fin))
    => /\ fout[1].kind = "ok"
       /\ Len(fout[1].value) >= 1
       /\ \A c \in 0..(N(fin) - 1) :
             \/ fin.task_kl[Positions[1]] < fin.task_kl[c]
             \/ /\ fin.task_kl[Positions[1]] = fin.task_kl[c]
                /\ Positions[1] <= c

C30_Witness ==
    /\ Pruned("quality_pruning")
    /\ N(fin) = 3 /\ fin.selected_amount = 2
    /\ fin.task_kl[0] > fin.task_kl[1]
    /\ fin.task_kl[1] = fin.task_kl[2]
    /\ Positions[1] = 1

\* The composite score of candidate c at the p-th pick of a selection sel.
CompositeBefore(sel, p, c) == SumBefore(sel, p, c) + (1 - fin.task_kl[c])

\* C31: after the seed, every pick of quality_pruning is the candidate not
\* taken before of greatest sum of dissimilarities to those taken before
\* plus 1 - dissimilarity to the task, the lowest position among equals, and
\* the responses are returned in the order of selection.
C31_QualityPicksMaximizeComposite ==
    (Pruned("quality_pruning")
     /\ 1 <= fin.selected_amount /\ fin.selected_amount < N(fin))
    => /\ fout[1].kind = "ok"
       /\ Len(fout[1].value) = fin.selected_amount
       /\ \A p \in 2..Len(Positions) :
             /\ ~TakenBefore(Positions, p, Positions[p])
             /\ \A c \in 0..(N(fin) - 1) :
                   ~TakenBefore(Positions, p, c) =>
                       \/ CompositeBefore(Positions, p, c)
                              < CompositeBefore(Positions, p, Positions[p])
                       \/ /\ CompositeBefore(Positions, p, c)
                                = CompositeBefore(Positions, p, Positions[p])
                          /\ Positions[p] <= c

\* The third pick is the more relevant candidate although the other one has
\* the greater sum of dissimilarities to the two taken before, and the result
\* is not in input order.
C31_Witness ==
    /\ Pruned("quality_pruning")
    /\ N(fin) = 4 /\ fin.selected_amount = 3
    /\ Positions = <<2, 3, 0>>
    /\ Kl(fin, 0, 2) + Kl(fin, 0, 3) < Kl(fin, 1, 2) + Kl(fin, 1, 3)
    /\ Kl(fin, 0, 2) > 0 /\ Kl(fin, 0, 3) > 0
    /\ fin.task_kl[0] < fin.task_kl[1]

\* C35: when every agent call returns or raises, debate terminates, returning
\* or raising, and get_responses is never called more than max_rounds times.
C35_DebateTerminatesWithinMaxRounds ==
    /\ <>(pc \in {"returned", "raised"})
    /\ [](Len(dispatched) <= max_rounds)

\* A debate that used every round it was allowed and returned.
C35_Witness ==
    /\ pc = "returned"
    /\ max_rounds = MaxRounds
    /\ Len(dispatched) = max_rounds

\* C36: the prompt dispatched in a round i >= 1 is the round-n prompt built
\* from the payloads of round i - 1, all of them in the order get_responses
\* returned them, and from no earlier round.
C36_PromptFromPreviousRound ==
    (pc \in {"dispatch", "append"} /\ round_num >= 1) =>
        /\ Len(all_responses) = round_num
        /\ prompt.round = "n"
        /\ Len(prompt.responses) = NumAgents
        /\ \A p \in 1..NumAgents :
              prompt.responses[p] = all_responses[round_num][p].response

\* Round 2 is being dispatched and rounds 0 and 1 gave different payloads.
C36_Witness ==
    /\ pc = "dispatch" /\ round_num = 2
    /\ NumAgents >= 2
    /\ ExtractedResponses(all_responses[1])
           # ExtractedResponses(all_responses[2])
    /\ prompt.responses = ExtractedResponses(all_responses[2])

\* C37: convergence is never evaluated on the responses of the last permitted
\* round, index max_rounds - 1: once that round is recorded the debate
\* returns whatever its answers are, and with max_rounds = 1 no answer is
\* extracted at all.
C37_LastRoundNeverChecked ==
    /\ (max_rounds - 1) \notin checked
    /\ (max_rounds >= 1 /\ Len(all_responses) = max_rounds)
          => (pc \in {"loop", "returned"} /\ err = "none")
    /\ max_rounds = 1 => checked = {}

\* A debate that returned although its last round holds an answer that is
\* not recognized.
C37_Witness ==
    /\ pc = "returned"
    /\ max_rounds >= 2 /\ Len(all_responses) = max_rounds
    /\ ~Recognized(all_responses[max_rounds])
    /\ checked = 0..(max_rounds - 2)

\* C38: construction from a list of groups raises ValueError or yields an
\* ensemble of at least one agent.
C38_ConfigListEnsembleNotEmpty ==
    FromConfigList =>
        \/ fout[1] = [kind |-> "raise", exception |-> "ValueError"]
        \/ fout[1].kind = "ok" /\ Len(fout[1].agents) >= 1

\* Claim vocabulary for the batch: the ids of the entries gone through so
\* far whose debate raised in the current run_debate call, in dataframe order.
RECURSIVE FailedUpTo(_)
FailedUpTo(n) ==
    IF n = 0 THEN <<>>
    ELSE LET id_ == dataframe[n]
         IN IF /\ last_debate[id_] # <<>>
               /\ last_debate[id_][1].run = run_no
               /\ last_debate[id_][1].outcome = "raised"
            THEN Append(FailedUpTo(n - 1), id_)
            ELSE FailedUpTo(n - 1)

FailedIds == [p \in 1..Len(failed_entries) |-> failed_entries[p].id]

\* C32: in run_debate an entry whose processing raises is recorded in
\* failed_entries with its id and the loop goes on with the next entry; on
\* return every entry was gone through and counted once, so processed_count
\* + len(failed_entries) = total_entries.
C32_BatchCountsEveryEntryOnce ==
    /\ bpc \in {"loop", "returned"} =>
          /\ processed_count + Len(failed_entries) = entry_ix
          /\ FailedIds = FailedUpTo(entry_ix)
    /\ bpc = "returned" =>
          /\ entry_ix = Len(dataframe)
          /\ summary[1].total_entries = Len(dataframe)
          /\ summary[1].failed_entries = failed_entries
          /\ summary[1].processed_count + Len(summary[1].failed_entries)
                = summary[1].total_entries

\* run_debate returned after the first entry failed and the second was
\* debated to its end.
C32_Witness ==
    /\ bpc = "returned"
    /\ Len(dataframe) = 2
    /\ FailedIds = <<1>>
    /\ summary[1].processed_count = 1
    /\ last_debate[2] # <<>>
    /\ last_debate[2][1].run = run_no
    /\ last_debate[2][1].outcome = "returned"

\* The round files of an entry, and the greatest round number among them.
RoundFiles(id_) == {r \in 0..(MaxRounds - 1) : base_dir[id_].files[r] # <<>>}

\* C33: after any sequence of debates of an entry, the stored round of
\* greatest round number is the last round that the entry's most recent
\* debate stored.
C33_LatestRoundIsOfLastDebate ==
    \A id_ \in 1..Len(dataframe) :
        (bpc \in {"loop", "returned"}
         /\ last_debate[id_] # <<>> /\ last_debate[id_][1].rounds >= 1)
        => /\ SetMax(RoundFiles(id_)) = last_debate[id_][1].rounds - 1
           /\ base_dir[id_].files[SetMax(RoundFiles(id_))]
                 = <<last_debate[id_][1].run>>

\* C34: without overwrite an entry is skipped only if its earlier debate
\* finished, by convergence or by using up its rounds.
C34_SkipsOnlyFinishedDebates ==
    \A id_ \in skips :
        /\ last_debate[id_] # <<>>
        /\ last_debate[id_][1].outcome = "returned"

====
